---- MODULE Spec2Model ----
(***************************************************************************)
(* Model of the notebook "Training and Test Errors"                        *)
(* (src/Training_and_Test_Errors.ipynb).                                   *)
(*                                                                         *)
(* The state is the kernel's namespace: the names the code cells bind      *)
(* (bordeaux_train, X_train, y_train, pipeline, y_train_, mse, rmse,       *)
(* model), the names they import, and the outcome of the last cell. There  *)
(* is one action per code cell; a cell runs its statements in order and    *)
(* stops at the first one that raises, keeping what was bound before.      *)
(*                                                                         *)
(* Floating-point numbers are modelled as exact rationals <<n, d>>, d > 0, *)
(* in lowest terms; np.sqrt is modelled as the square root rounded to the  *)
(* nearest multiple of 1/SqrtScale.                                        *)
(***************************************************************************)
EXTENDS Integers, Sequences, FiniteSets

\* ------------------------------------------------------------------ bounds
\* longest label vector drawn as an input of the metrics
MaxLen == 3
\* most rows of the training table read from bordeaux.csv
MaxObs == 5
\* np.sqrt is rounded to the nearest multiple of 1/SqrtScale
SqrtScale == 10

\* ------------------------------------------------- rational arithmetic
IAbs(i) == IF i < 0 THEN -i ELSE i

RECURSIVE GCD(_, _)
GCD(a, b) == IF b = 0 THEN a ELSE GCD(b, a % b)

\* the rational n/d in lowest terms, d > 0
Q(n, d) ==
    LET g == GCD(IAbs(n), d)
    IN  IF g = 0 THEN <<0, 1>> ELSE <<n \div g, d \div g>>

QInt(i) == <<i, 1>>

QAdd(a, b) == Q(a[1] * b[2] + b[1] * a[2], a[2] * b[2])

\* (mutant: the difference taken as a sum)
QSubBroken(a, b) == Q(a[1] * b[2] + b[1] * a[2], a[2] * b[2])
\* a - b
QSub(a, b) == Q(a[1] * b[2] - b[1] * a[2], a[2] * b[2])

QMul(a, b) == Q(a[1] * b[1], a[2] * b[2])

\* a / b for b # 0
QDiv(a, b) ==
    IF b[1] > 0 THEN Q(a[1] * b[2], a[2] * b[1])
    ELSE Q(-(a[1] * b[2]), -(a[2] * b[1]))

QAbs(a) == <<IAbs(a[1]), a[2]>>

QLe(a, b) == a[1] * b[2] <= b[1] * a[2]

\* ---------------------------------------------------- values and errors
\* what an expression evaluates to: a float, NaN, or a raised exception
Val(q) == [tag |-> "ok", v |-> q]
NaN == [tag |-> "nan", v |-> <<0, 1>>]
Raise(e) == [tag |-> e, v |-> <<0, 1>>]
Shown == [tag |-> "obj", v |-> <<0, 1>>]
NoOut == [tag |-> "none", v |-> <<0, 1>>]

Errors == {"ValueError", "NameError", "NotFittedError"}
IsRaise(r) == r.tag \in Errors

\* ------------------------------------------------------- vector operations
RECURSIVE Sum(_)
Sum(s) == IF s = <<>> THEN <<0, 1>> ELSE QAdd(Head(s), Sum(Tail(s)))

\* (mutant: the sum over the count less one)
MeanDropsOne(s) ==
    IF Len(s) = 0 THEN NaN
    ELSE IF Len(s) = 1 THEN Val(Sum(s))
    ELSE Val(QDiv(Sum(s), QInt(Len(s) - 1)))
\* (mutant: 0 for an empty Series)
MeanZeroOnEmpty(s) ==
    IF Len(s) = 0 THEN Val(<<0, 1>>)
    ELSE Val(QDiv(Sum(s), QInt(Len(s))))
\* Series.mean(): the sum over the count; NaN for an empty Series
Mean(s) ==
    IF Len(s) = 0 THEN NaN
    ELSE Val(QDiv(Sum(s), QInt(Len(s))))

\* (mutant: the longer vector cut to the length of the shorter)
SeriesSubTrunc(y, yh) ==
    LET n == IF Len(y) < Len(yh) THEN Len(y) ELSE Len(yh)
    IN  [tag |-> "ok", s |-> [i \in 1..n |-> QSub(y[i], yh[i])]]
\* y_train - y_train_: a pandas Series minus a numpy array. Equal lengths
\* are paired by position; an array of length 1 is broadcast over the
\* Series; any other pair of lengths raises ValueError.
SeriesSub(y, yh) ==
    IF Len(y) = Len(yh)
    THEN [tag |-> "ok", s |-> [i \in 1..Len(y) |-> QSub(y[i], yh[i])]]
    ELSE IF Len(yh) = 1
    THEN [tag |-> "ok", s |-> [i \in 1..Len(y) |-> QSub(y[i], yh[1])]]
    ELSE [tag |-> "ValueError", s |-> <<>>]

\* | ... |, element by element
SeriesAbs(s) == [i \in 1..Len(s) |-> QAbs(s[i])]
\* ( ... ) ** 2, element by element
SeriesSquare(s) == [i \in 1..Len(s) |-> QMul(s[i], s[i])]

\* ((y_train - y_train_) ** 2).mean()
MSE(y, yh) ==
    LET d == SeriesSub(y, yh)
    IN  IF d.tag # "ok" THEN Raise(d.tag) ELSE Mean(SeriesSquare(d.s))

\* sklearn.metrics.mean_squared_error(y_true, y_pred): rejects vectors of
\* different lengths and vectors with no sample, else the mean of the
\* squared differences
SkMSE(y, yh) ==
    IF Len(y) # Len(yh) \/ Len(y) = 0 THEN Raise("ValueError")
    ELSE Mean(SeriesSquare([i \in 1..Len(y) |-> QSub(y[i], yh[i])]))

\* np.sqrt of a non-negative float, rounded to the nearest multiple of
\* 1/SqrtScale; NaN stays NaN
SqrtGrid(q) ==
    LET S == SqrtScale
        j == CHOOSE j \in 0..(2 * S * (q[1] \div q[2] + 1)) :
                 /\ j * j * q[2] <= 4 * S * S * q[1]
                 /\ 4 * S * S * q[1] < (j + 1) * (j + 1) * q[2]
    IN  Q((j + 1) \div 2, S)

\* (mutant: the root not taken)
NoSqrt(r) == r
\* np.sqrt(mse)
NpSqrt(r) == IF r.tag = "ok" THEN Val(SqrtGrid(r.v)) ELSE r

\* MAE = mean of |y - y_hat|, for vectors paired by position
MAE(y, yh) == Mean(SeriesAbs([i \in 1..Len(y) |-> QSub(y[i], yh[i])]))

\* the mean of y as a rational, for non-empty y
YBar(y) == QDiv(Sum(y), QInt(Len(y)))

\* mean of (y - ybar)^2: the variance of the label
Variance(y) == Mean(SeriesSquare([i \in 1..Len(y) |-> QSub(y[i], YBar(y))]))

\* (mutant: the fraction of variance left over)
R2NoOne(y, yh) ==
    Val(QDiv(Mean(SeriesSquare([i \in 1..Len(y) |-> QSub(y[i], yh[i])])).v,
             Variance(y).v))
\* (mutant: the fraction added to 1)
R2Plus(y, yh) ==
    Val(QAdd(QInt(1),
             QDiv(Mean(SeriesSquare([i \in 1..Len(y) |-> QSub(y[i], yh[i])])).v,
                  Variance(y).v)))
\* R^2 = 1 - (mean of (y - y_hat)^2) / (mean of (y - ybar)^2), for vectors
\* paired by position and a label of non-zero variance
R2(y, yh) ==
    Val(QSub(QInt(1),
             QDiv(Mean(SeriesSquare([i \in 1..Len(y) |-> QSub(y[i], yh[i])])).v,
                  Variance(y).v)))

\* ------------------------------------------------------ nearest neighbors
\* number of neighbors of the pipeline's regressor and of the second model
K5 == 5
K1 == 1

\* the population variance of one feature column (StandardScaler.var_)
ColVar(X, c) == Variance([i \in 1..Len(X) |-> QInt(X[i][c])]).v

\* StandardScaler divides a column by sqrt(var_), by 1 when var_ is 0
Scale2(X, c) == IF ColVar(X, c)[1] = 0 THEN <<1, 1>> ELSE ColVar(X, c)

Unscaled == <<(<<1, 1>>), (<<1, 1>>)>>

\* squared Euclidean distance between two observations whose columns are
\* divided by the square roots of s2 (the column means cancel)
Dist2(a, b, s2) ==
    QAdd(QDiv(QInt((a[1] - b[1]) * (a[1] - b[1])), s2[1]),
         QDiv(QInt((a[2] - b[2]) * (a[2] - b[2])), s2[2]))

\* a regressor that was constructed but not fitted
NewKnn(k) == [fitted |-> FALSE, k |-> k, s2 |-> Unscaled, X |-> <<>>, y |-> <<>>]

\* fit() stores the training observations and labels
FitKnn(k, s2, X, y) == [fitted |-> TRUE, k |-> k, s2 |-> s2, X |-> X, y |-> y]

\* (mutant: the k observations farthest from x)
FarthestSets(m, x) ==
    {S \in SUBSET (1..Len(m.X)) :
        /\ Cardinality(S) = m.k
        /\ \A i \in S : \A j \in (1..Len(m.X)) \ S :
              QLe(Dist2(m.X[j], x, m.s2), Dist2(m.X[i], x, m.s2))}
\* the sets of k training observations nearest to x: no observation left
\* out is strictly nearer than one taken (ties are broken either way)
NeighborSets(m, x) ==
    {S \in SUBSET (1..Len(m.X)) :
        /\ Cardinality(S) = m.k
        /\ \A i \in S : \A j \in (1..Len(m.X)) \ S :
              QLe(Dist2(m.X[i], x, m.s2), Dist2(m.X[j], x, m.s2))}

RECURSIVE SumOver(_, _)
SumOver(y, S) ==
    IF S = {} THEN <<0, 1>>
    ELSE LET i == CHOOSE i \in S : TRUE
         IN  QAdd(y[i], SumOver(y, S \ {i}))

\* the predictions the regressor may give for x: the mean label of a set
\* of nearest neighbors
PredSet(m, x) ==
    {QDiv(SumOver(m.y, S), QInt(m.k)) : S \in NeighborSets(m, x)}

RECURSIVE PredSeqs(_, _, _)
PredSeqs(m, X, n) ==
    IF n = 0 THEN {<<>>}
    ELSE {Append(p, v) : p \in PredSeqs(m, X, n - 1), v \in PredSet(m, X[n])}

\* predict(X): one prediction per row of X
Predict(m, X) == PredSeqs(m, X, Len(X))

\* --------------------------------------------------------------- inputs
\* the last year of the training data
Cutoff == 1980

\* the row of bordeaux.csv for one vintage, with log(price) computed
Vintage(yr) ==
    [year |-> yr, win |-> yr % 3, summer |-> yr % 2,
     logprice |-> <<1 + (yr % 4), 1>>]

\* the files: the vintages from some first year to the year after Cutoff
Files ==
    {[i \in 1..(Cutoff + 2 - a) |-> Vintage(a + i - 1)] :
        a \in (Cutoff + 1 - MaxObs)..(Cutoff + 1)}

SeqsUpTo(S, n) == UNION {[1..k -> S] : k \in 0..n}

\* label vectors and prediction vectors given to the metrics
LabelVals == {1, 2, 3}
Vectors == SeqsUpTo({<<v, 1>> : v \in LabelVals}, MaxLen)

\* training sets given to the 1-nearest-neighbor model
MaxTrain == 3
FeatureVals == {0, 1}
Observations == SeqsUpTo(FeatureVals \X FeatureVals, MaxTrain)
Labels == SeqsUpTo({<<1, 1>>, <<2, 1>>}, MaxTrain)

\* ---------------------------------------------------------------- state
VARIABLES
    csv,             \* the rows of bordeaux.csv
    ns,              \* the names bound in the kernel's namespace
    bordeaux_train,
    X_train,
    y_train,
    pipeline,
    y_train_,
    mse,
    rmse,
    model,
    out,             \* the cell run last and what it showed or raised
    progress,        \* cells run so far, while they ran top to bottom; else -1
    y_train_by,      \* what bound y_train_ last
    mse_from,        \* y_train_by when mse was bound
    ran_1nn,         \* the 1-nearest-neighbor cell has bound y_train_
    mse_after_1nn    \* ran_1nn when mse was bound

vars == <<csv, ns, bordeaux_train, X_train, y_train, pipeline, y_train_,
          mse, rmse, model, out, progress, y_train_by, mse_from, ran_1nn,
          mse_after_1nn>>

\* the position reached in a top-to-bottom run after running cell number c
Step(c) == IF progress = c - 1 THEN c ELSE -1

\* a fresh kernel
Init ==
    /\ csv \in Files
    /\ ns = {}
    /\ bordeaux_train = <<>>
    /\ X_train = <<>>
    /\ y_train = <<>>
    /\ pipeline = NewKnn(K5)
    /\ y_train_ = <<>>
    /\ mse = NaN
    /\ rmse = NaN
    /\ model = NewKnn(K1)
    /\ out = [cell |-> "none", res |-> NoOut]
    /\ progress = 0
    /\ y_train_by = "none"
    /\ mse_from = "none"
    /\ ran_1nn = FALSE
    /\ mse_after_1nn = FALSE

\* a kernel in which y_train and y_train_ are bound to any two vectors
InitMetrics ==
    /\ csv = <<>>
    /\ ns = {"pd", "np", "y_train", "y_train_"}
    /\ bordeaux_train = <<>>
    /\ X_train = <<>>
    /\ y_train \in Vectors
    /\ y_train_ \in Vectors
    /\ pipeline = NewKnn(K5)
    /\ mse = NaN
    /\ rmse = NaN
    /\ model = NewKnn(K1)
    /\ out = [cell |-> "none", res |-> NoOut]
    /\ progress = -1
    /\ y_train_by = "input"
    /\ mse_from = "none"
    /\ ran_1nn = FALSE
    /\ mse_after_1nn = FALSE

\* a kernel in which X_train and y_train are bound to any training set
InitKnn ==
    /\ csv = <<>>
    /\ ns = {"pd", "np", "KNeighborsRegressor", "mean_squared_error",
             "X_train", "y_train"}
    /\ bordeaux_train = <<>>
    /\ X_train \in Observations
    /\ y_train \in Labels
    /\ Len(X_train) = Len(y_train)
    /\ pipeline = NewKnn(K5)
    /\ y_train_ = <<>>
    /\ mse = NaN
    /\ rmse = NaN
    /\ model = NewKnn(K1)
    /\ out = [cell |-> "none", res |-> NoOut]
    /\ progress = -1
    /\ y_train_by = "none"
    /\ mse_from = "none"
    /\ ran_1nn = FALSE
    /\ mse_after_1nn = FALSE

\* ----------------------------------------------------------------- cells
Outcome(c, r) == [cell |-> c, res |-> r]

\* cell 1: read bordeaux.csv, keep the rows up to 1980, add log(price)
Load ==
    /\ ns' = ns \cup {"pd", "np", "bordeaux_train"}
    /\ bordeaux_train' = SelectSeq(csv, LAMBDA r : r.year <= Cutoff)
    /\ out' = Outcome("load", NoOut)
    /\ progress' = Step(1)
    /\ UNCHANGED <<csv, X_train, y_train, pipeline, y_train_, mse, rmse,
                   model, y_train_by, mse_from, ran_1nn, mse_after_1nn>>

\* cell 2: the imports, X_train and y_train, and the fit of the pipeline
\* of a StandardScaler and a 5-nearest-neighbors regressor
Fit5 ==
    LET imported == ns \cup {"StandardScaler", "KNeighborsRegressor",
                             "make_pipeline"}
        X == [i \in 1..Len(bordeaux_train) |->
                <<bordeaux_train[i].win, bordeaux_train[i].summer>>]
        y == [i \in 1..Len(bordeaux_train) |-> bordeaux_train[i].logprice]
    IN  /\ progress' = Step(2)
        /\ IF "bordeaux_train" \notin ns
           THEN /\ ns' = imported
                /\ out' = Outcome("fit5", Raise("NameError"))
                /\ UNCHANGED <<X_train, y_train, pipeline>>
           ELSE /\ ns' = imported \cup {"X_train", "y_train", "pipeline"}
                /\ X_train' = X
                /\ y_train' = y
                /\ IF Len(X) = 0
                   THEN /\ pipeline' = NewKnn(K5)
                        /\ out' = Outcome("fit5", Raise("ValueError"))
                   ELSE /\ pipeline' =
                              FitKnn(K5, <<Scale2(X, 1), Scale2(X, 2)>>, X, y)
                        /\ out' = Outcome("fit5", Shown)
        /\ UNCHANGED <<csv, bordeaux_train, y_train_, mse, rmse, model,
                       y_train_by, mse_from, ran_1nn, mse_after_1nn>>

\* cell 3: y_train_ = pipeline.predict(X=X_train)
Predict5 ==
    /\ progress' = Step(3)
    /\ IF "pipeline" \notin ns \/ "X_train" \notin ns
       THEN /\ out' = Outcome("predict5", Raise("NameError"))
            /\ UNCHANGED <<ns, y_train_, y_train_by>>
       ELSE IF ~pipeline.fitted
       THEN /\ out' = Outcome("predict5", Raise("NotFittedError"))
            /\ UNCHANGED <<ns, y_train_, y_train_by>>
       ELSE IF Len(pipeline.X) < pipeline.k
       THEN /\ out' = Outcome("predict5", Raise("ValueError"))
            /\ UNCHANGED <<ns, y_train_, y_train_by>>
       ELSE /\ \E p \in Predict(pipeline, X_train) : y_train_' = p
            /\ ns' = ns \cup {"y_train_"}
            /\ y_train_by' = "pipeline"
            /\ out' = Outcome("predict5", Shown)
    /\ UNCHANGED <<csv, bordeaux_train, X_train, y_train, pipeline, mse,
                   rmse, model, mse_from, ran_1nn, mse_after_1nn>>

\* cell 4: mse = ((y_train - y_train_) ** 2).mean()
CalcMse ==
    /\ progress' = Step(4)
    /\ IF "y_train" \notin ns \/ "y_train_" \notin ns
       THEN /\ out' = Outcome("mse", Raise("NameError"))
            /\ UNCHANGED <<ns, mse, mse_from, mse_after_1nn>>
       ELSE IF IsRaise(MSE(y_train, y_train_))
       THEN /\ out' = Outcome("mse", MSE(y_train, y_train_))
            /\ UNCHANGED <<ns, mse, mse_from, mse_after_1nn>>
       ELSE /\ mse' = MSE(y_train, y_train_)
            /\ ns' = ns \cup {"mse"}
            /\ mse_from' = y_train_by
            /\ mse_after_1nn' = ran_1nn
            /\ out' = Outcome("mse", MSE(y_train, y_train_))
    /\ UNCHANGED <<csv, bordeaux_train, X_train, y_train, pipeline,
                   y_train_, rmse, model, y_train_by, ran_1nn>>

\* cell 5: import mean_squared_error and show
\* mean_squared_error(y_train, y_train_)
SkMse ==
    /\ progress' = Step(5)
    /\ ns' = ns \cup {"mean_squared_error"}
    /\ IF "y_train" \notin ns \/ "y_train_" \notin ns
       THEN out' = Outcome("sk_mse", Raise("NameError"))
       ELSE out' = Outcome("sk_mse", SkMSE(y_train, y_train_))
    /\ UNCHANGED <<csv, bordeaux_train, X_train, y_train, pipeline,
                   y_train_, mse, rmse, model, y_train_by, mse_from,
                   ran_1nn, mse_after_1nn>>

\* cell 6: rmse = np.sqrt(mse)
CalcRmse ==
    /\ progress' = Step(6)
    /\ IF "np" \notin ns \/ "mse" \notin ns
       THEN /\ out' = Outcome("rmse", Raise("NameError"))
            /\ UNCHANGED <<ns, rmse>>
       ELSE /\ rmse' = NpSqrt(mse)
            /\ ns' = ns \cup {"rmse"}
            /\ out' = Outcome("rmse", NpSqrt(mse))
    /\ UNCHANGED <<csv, bordeaux_train, X_train, y_train, pipeline,
                   y_train_, mse, model, y_train_by, mse_from, ran_1nn,
                   mse_after_1nn>>

\* cell 7, what it binds: fit a 1-nearest-neighbors model, rebind
\* y_train_ to its predictions on the training data, show the mean
\* squared error
Fit1Binds ==
    /\ progress' = Step(7)
    /\ IF "KNeighborsRegressor" \notin ns
       THEN /\ out' = Outcome("fit1", Raise("NameError"))
            /\ UNCHANGED <<ns, model, y_train_, y_train_by, ran_1nn>>
       ELSE IF "X_train" \notin ns \/ "y_train" \notin ns
       THEN /\ model' = NewKnn(K1)
            /\ ns' = ns \cup {"model"}
            /\ out' = Outcome("fit1", Raise("NameError"))
            /\ UNCHANGED <<y_train_, y_train_by, ran_1nn>>
       ELSE IF Len(X_train) = 0
       THEN /\ model' = NewKnn(K1)
            /\ ns' = ns \cup {"model"}
            /\ out' = Outcome("fit1", Raise("ValueError"))
            /\ UNCHANGED <<y_train_, y_train_by, ran_1nn>>
       ELSE /\ model' = FitKnn(K1, Unscaled, X_train, y_train)
            /\ \E p \in Predict(FitKnn(K1, Unscaled, X_train, y_train),
                                X_train) :
                  /\ y_train_' = p
                  /\ IF "mean_squared_error" \notin ns
                     THEN out' = Outcome("fit1", Raise("NameError"))
                     ELSE out' = Outcome("fit1", SkMSE(y_train, p))
            /\ ns' = ns \cup {"model", "y_train_"}
            /\ y_train_by' = "model"
            /\ ran_1nn' = TRUE

\* (mutant: rebinding y_train_ recomputes mse)
Fit1Recomputes ==
    /\ Fit1Binds
    /\ mse' = IF y_train_by' = "model" THEN MSE(y_train, y_train_') ELSE mse
    /\ mse_from' = IF y_train_by' = "model" THEN "model" ELSE mse_from
    /\ UNCHANGED <<csv, bordeaux_train, X_train, y_train, pipeline, rmse,
                   mse_after_1nn>>
\* cell 7: it binds model and y_train_ and nothing else
Fit1 ==
    /\ Fit1Binds
    /\ UNCHANGED <<csv, bordeaux_train, X_train, y_train, pipeline, mse,
                   rmse, mse_from, mse_after_1nn>>

\* the formulas of the text, evaluated on y_train and y_train_
EvalMae ==
    /\ Len(y_train) = Len(y_train_)
    /\ Len(y_train) >= 1
    /\ out' = Outcome("mae", MAE(y_train, y_train_))
    /\ UNCHANGED <<csv, ns, bordeaux_train, X_train, y_train, pipeline,
                   y_train_, mse, rmse, model, progress, y_train_by,
                   mse_from, ran_1nn, mse_after_1nn>>

EvalR2 ==
    /\ Len(y_train) = Len(y_train_)
    /\ Len(y_train) >= 1
    /\ Variance(y_train).v[1] # 0
    /\ out' = Outcome("r2", R2(y_train, y_train_))
    /\ UNCHANGED <<csv, ns, bordeaux_train, X_train, y_train, pipeline,
                   y_train_, mse, rmse, model, progress, y_train_by,
                   mse_from, ran_1nn, mse_after_1nn>>

Next == Load \/ Fit5 \/ Predict5 \/ CalcMse \/ SkMse \/ CalcRmse \/ Fit1

Spec == Init /\ [][Next]_vars

NextMetrics == CalcMse \/ SkMse \/ CalcRmse \/ EvalMae \/ EvalR2

SpecMetrics == InitMetrics /\ [][NextMetrics]_vars

NextKnn == Fit1 \/ SkMse

SpecKnn == InitKnn /\ [][NextKnn]_vars

\* ------------------------------------------------- claims on the metrics
\* The sums below are taken over the integer numerators of the inputs (the
\* vectors drawn are whole numbers), without the operators of the model.

Paired == Len(y_train) = Len(y_train_) /\ Len(y_train) >= 1

\* sum over i <= n of (y[i] - yh[i])^2
RECURSIVE SumSqDiff(_, _, _)
SumSqDiff(y, yh, n) ==
    IF n = 0 THEN 0
    ELSE (y[n][1] - yh[n][1]) * (y[n][1] - yh[n][1])
         + SumSqDiff(y, yh, n - 1)

RECURSIVE SumNum(_, _)
SumNum(y, n) == IF n = 0 THEN 0 ELSE y[n][1] + SumNum(y, n - 1)

\* sum over i <= n of (n*y[i] - (y[1] + ... + y[n]))^2, n^3 times n times
\* the variance of y
RECURSIVE SumSqDev(_, _, _)
SumSqDev(y, m, n) ==
    IF m = 0 THEN 0
    ELSE (n * y[m][1] - SumNum(y, n)) * (n * y[m][1] - SumNum(y, n))
         + SumSqDev(y, m - 1, n)

\* r is the float q/n
IsRatio(r, q, n) == r.tag = "ok" /\ r.v[1] * n = q * r.v[2] /\ r.v[2] > 0

\* the sum of (y[i] - y_hat[i])^2 over the positions
SqErr == SumSqDiff(y_train, y_train_, Len(y_train))

\* C1: for vectors of equal length n >= 1, the mean squared error (the
\* notebook's expression and the library function alike) is the sum of
\* (y[i] - y_hat[i])^2 over the positions i, divided by n.
C1_MseIsMeanOfSquares ==
    Paired =>
        /\ "mse" \in ns =>
              IsRatio(mse, SqErr, Len(y_train))
        /\ out.cell \in {"mse", "sk_mse"} =>
              IsRatio(out.res, SqErr, Len(y_train))

C1_Witness ==
    /\ out.cell = "sk_mse"
    /\ "mse" \in ns
    /\ Len(y_train) = 3
    /\ mse = Val(<<2, 3>>)
    /\ out.res = mse

\* C2: for a non-constant y, R^2 is 1 - mean((y - y_hat)^2) /
\* mean((y - ybar)^2); it is exactly 0 when every y_hat[i] is ybar.
C2_R2Formula ==
    out.cell = "r2" =>
        LET n == Len(y_train)
            D == SumSqDev(y_train, n, n)
            E == SumSqDiff(y_train, y_train_, n)
        IN  /\ D > 0
            /\ IsRatio(out.res, D - n * n * E, D)
            /\ (\A i \in 1..n : n * y_train_[i][1] = SumNum(y_train, n))
                  => out.res = Val(<<0, 1>>)

C2_Witness ==
    /\ out.cell = "r2"
    /\ y_train = <<(<<1, 1>>), (<<2, 1>>), (<<3, 1>>)>>
    /\ y_train_ = <<(<<2, 1>>), (<<2, 1>>), (<<2, 1>>)>>
    /\ out.res = Val(<<0, 1>>)

\* C4: for a non-empty y, the mean squared error and the mean absolute
\* error of y against itself are 0, and R^2 of a non-constant y against
\* itself is 1.
C4_PerfectFit ==
    (Paired /\ y_train_ = y_train) =>
        /\ "mse" \in ns => mse = Val(<<0, 1>>)
        /\ out.cell \in {"mse", "sk_mse", "mae"} => out.res = Val(<<0, 1>>)
        /\ out.cell = "r2" => out.res = Val(<<1, 1>>)

C4_Witness ==
    /\ y_train_ = y_train
    /\ Len(y_train) = 3
    /\ "mse" \in ns
    /\ mse = Val(<<0, 1>>)
    /\ out.cell = "r2"
    /\ out.res = Val(<<1, 1>>)

\* the mean absolute error of y against itself, reached as well
C4_WitnessMae ==
    /\ y_train_ = y_train
    /\ Len(y_train) = 3
    /\ out.cell = "mae"
    /\ out.res = Val(<<0, 1>>)

\* C8: for a non-constant y, R^2 is never greater than 1.
C8_R2AtMostOne ==
    out.cell = "r2" => out.res.tag = "ok" /\ out.res.v[1] <= out.res.v[2]

\* ... and it is negative for some inputs
C8_Witness ==
    /\ out.cell = "r2"
    /\ out.res.tag = "ok"
    /\ out.res.v[1] < 0

\* r = a/b is the square root of q/n rounded to the nearest multiple of
\* 1/SqrtScale: (r - 1/(2S))^2 <= q/n < (r + 1/(2S))^2, and r >= 0
NearRoot(r, q, n) ==
    LET a == r[1]
        b == r[2]
        S == SqrtScale
    IN  /\ a >= 0
        /\ b > 0
        /\ 4 * S * S * q * b * b < (2 * S * a + b) * (2 * S * a + b) * n
        /\ a = 0 \/ (2 * S * a - b) * (2 * S * a - b) * n <= 4 * S * S * q * b * b

\* rmse, once bound for vectors of equal length n >= 1, is the
\* non-negative square root of their mean squared error
RmseIsRoot ==
    ("rmse" \in ns /\ Paired) =>
        /\ rmse.tag = "ok"
        /\ NearRoot(rmse.v, SqErr, Len(y_train))

RmseAfterMse == out.cell = "mse" /\ out'.cell = "rmse"

\* C3 as stated: rmse is the non-negative square root of the mean squared
\* error, and computing it right after the mean squared error fails in
\* exactly the cases where that fails, with the same error.
C3_RmseSameError ==
    /\ []RmseIsRoot
    /\ [][RmseAfterMse =>
            IF IsRaise(out.res) THEN out'.res = out.res
            ELSE ~IsRaise(out'.res)]_vars

\* C3, amended: rmse is the non-negative square root of the mean squared
\* error; the rmse cell run right after the mse cell raises exactly when
\* the mse cell raised, and what it raises is NameError (mse is unbound),
\* not the error of the mse cell.
C3_RmseIsRootOfMse ==
    /\ []RmseIsRoot
    /\ [][RmseAfterMse =>
            /\ IsRaise(out'.res) <=> IsRaise(out.res)
            /\ IsRaise(out'.res) => out'.res = Raise("NameError")
            /\ IsRaise(out.res) => out.res = Raise("ValueError")]_vars

C3_Witness ==
    /\ out.cell = "rmse"
    /\ rmse.tag = "ok"
    /\ Paired
    /\ mse = Val(<<2, 3>>)
    /\ rmse # mse

\* the rmse cell raising after the mse cell raised, reached as well
C3_WitnessRaise ==
    /\ out = Outcome("rmse", Raise("NameError"))
    /\ Len(y_train) = 3
    /\ Len(y_train_) = 2

Metrics == {"mse", "sk_mse", "rmse"}

\* sum over i <= n of (y[i] - c)^2
RECURSIVE SumSqFrom(_, _, _)
SumSqFrom(y, c, n) ==
    IF n = 0 THEN 0
    ELSE (y[n][1] - c) * (y[n][1] - c) + SumSqFrom(y, c, n - 1)

\* C5 as stated: a metric given two vectors of different lengths raises
\* and returns no scalar (here for non-empty vectors; C6 is about the
\* empty ones).
C5_MismatchRaises ==
    (/\ out.cell \in Metrics
     /\ Len(y_train) # Len(y_train_)
     /\ Len(y_train) >= 1
     /\ Len(y_train_) >= 1) => IsRaise(out.res)

\* C5, amended: for two vectors of different lengths the library's
\* mean_squared_error raises ValueError; the notebook's expression raises
\* ValueError too unless y_hat has length 1, and then y_hat[1] is paired
\* with every y[i] and the mean of (y[i] - y_hat[1])^2 is returned (NaN
\* for an empty y); rmse is bound only in that case.
C5_MismatchRaisesUnlessBroadcast ==
    Len(y_train) # Len(y_train_) =>
        /\ out.cell = "sk_mse" => out.res = Raise("ValueError")
        /\ (out.cell = "mse" /\ Len(y_train_) # 1)
              => out.res = Raise("ValueError")
        /\ (out.cell = "mse" /\ Len(y_train_) = 1) =>
              IF Len(y_train) = 0 THEN out.res = NaN
              ELSE IsRatio(out.res,
                           SumSqFrom(y_train, y_train_[1][1], Len(y_train)),
                           Len(y_train))
        /\ (out.cell = "rmse" /\ Len(y_train_) # 1)
              => out.res = Raise("NameError")
        /\ ("mse" \in ns \/ "rmse" \in ns) => Len(y_train_) = 1

C5_Witness ==
    /\ out.cell = "mse"
    /\ Len(y_train) = 3
    /\ Len(y_train_) = 1
    /\ out.res = Val(<<2, 3>>)

\* C6 as stated: a metric given an empty vector raises.
C6_EmptyRaises ==
    (out.cell \in Metrics /\ (Len(y_train) = 0 \/ Len(y_train_) = 0))
        => IsRaise(out.res)

\* C6, amended: given an empty vector, the library's mean_squared_error
\* raises ValueError; the notebook's expression raises ValueError when
\* only y_hat is empty or when only y is empty and y_hat is longer than 1,
\* and otherwise (both empty, or y empty and y_hat of length 1) it raises
\* nothing and is NaN, as is rmse.
C6_EmptyIsNaN ==
    (Len(y_train) = 0 \/ Len(y_train_) = 0) =>
        /\ out.cell = "sk_mse" => out.res = Raise("ValueError")
        /\ out.cell = "mse" =>
              IF Len(y_train) = 0 /\ Len(y_train_) <= 1
              THEN out.res = NaN
              ELSE out.res = Raise("ValueError")
        /\ "mse" \in ns => mse = NaN
        /\ "rmse" \in ns => rmse = NaN
        /\ out.cell = "rmse" => out.res \in {NaN, Raise("NameError")}

C6_Witness ==
    /\ y_train = <<>>
    /\ y_train_ = <<>>
    /\ out = Outcome("rmse", NaN)
    /\ mse = NaN

\* ------------------------------------- claims on the 1-nearest-neighbor cell
\* observations with the same features have the same label
NoConflict ==
    \A i, j \in 1..Len(X_train) :
        X_train[i] = X_train[j] => y_train[i] = y_train[j]

RanTopToBottom == progress = 7 /\ Len(bordeaux_train) >= K5

\* after a top-to-bottom run mse and rmse are those of the pipeline's
\* predictions, and y_train_ holds the 1-nearest-neighbor predictions
TopToBottomFacts ==
    RanTopToBottom =>
        /\ {"mse", "rmse", "y_train_"} \subseteq ns
        /\ mse_from = "pipeline"
        /\ mse \in {MSE(y_train, p) : p \in Predict(pipeline, X_train)}
        /\ mse.tag = "ok"
        /\ rmse.tag = "ok"
        /\ NearRoot(rmse.v, mse.v[1], mse.v[2])
        /\ y_train_by = "model"
        /\ y_train_ \in Predict(model, X_train)

\* C10 as stated: ... and whenever the 1-nearest-neighbor cell has run
\* before the mse cell, mse is computed from the 1-nearest-neighbor
\* predictions.
C10_MseFollowsOrder ==
    /\ TopToBottomFacts
    /\ ("mse" \in ns /\ mse_after_1nn) =>
          /\ mse_from = "model"
          /\ mse \in {MSE(y_train, p) : p \in Predict(model, X_train)}

\* C10, amended: ... and whenever the 1-nearest-neighbor cell was the last
\* cell to bind y_train_ before the mse cell ran, mse is computed from the
\* 1-nearest-neighbor predictions; when the pipeline's cell was the last,
\* from the pipeline's.
C10_MseFollowsLastBinding ==
    /\ TopToBottomFacts
    /\ ("mse" \in ns /\ mse_from = "model") =>
          /\ mse_after_1nn
          /\ mse \in {MSE(y_train, p) : p \in Predict(model, X_train)}
    /\ ("mse" \in ns /\ mse_from = "pipeline") =>
          mse \in {MSE(y_train, p) : p \in Predict(pipeline, X_train)}

C10_Witness ==
    /\ RanTopToBottom
    /\ mse_from = "pipeline"
    /\ y_train_by = "model"
    /\ mse # MSE(y_train, y_train_)
    /\ out = Outcome("fit1", Val(<<0, 1>>))

\* mse computed from the 1-nearest-neighbor predictions, reached as well
C10_WitnessModel ==
    /\ "mse" \in ns
    /\ mse_from = "model"
    /\ mse = Val(<<0, 1>>)
    /\ Len(bordeaux_train) >= K5

====
